---- MODULE Spec2Model ----
(***************************************************************************)
(* A model of the medical-services chatbot (phase2): the in-memory vector  *)
(* store with its metadata-filtered cosine search (backend/vector_store.py)*)
(* the retrieval service over the process-wide store                       *)
(* (backend/vector_search.py), the identity validation (backend/utils.py)  *)
(* the two-phase conversation driven by the Streamlit session             *)
(* (frontend/app.py) and the FastAPI /chat handler (backend/main.py), the  *)
(* corpus build (backend/embed_knowledge_base.py), and the checkbox        *)
(* matcher of the form extractor (phase1/ocr_extractor.py).                *)
(***************************************************************************)
EXTENDS Integers, Sequences, FiniteSets, TLC

VARIABLES
    metadata_df,            \* VectorStore.metadata_df: one row of tags per record
    embeddings,             \* VectorStore.embeddings: one vector per row
    last_search,            \* the last VectorStore.search call: its inputs and what it returned
    messages,               \* st.session_state.messages
    user_info,              \* st.session_state.user_info
    conversation_phase,     \* st.session_state.conversation_phase
    waiting_for_response,   \* st.session_state.waiting_for_response
    initialized,            \* st.session_state.initialized
    last_turn,              \* the last chat turn: the request sent and what the backend did
    last_validation,        \* the last verify_user_information call: its arguments and outcome
    disk,                   \* the files under EMBEDDINGS_DIR
    vector_store,           \* vector_search._vector_store, the process-wide store
    load_attempts,          \* how many times VectorStore(EMBEDDINGS_DIR) was constructed
    last_kb,                \* the last search_knowledge_base call: its inputs and what it returned
    last_match,             \* the last match_key_with_checkbox call: its inputs and what it returned
    last_build              \* the last corpus build: the files traversed and what was saved

vars == <<metadata_df, embeddings, last_search, messages, user_info,
          conversation_phase, waiting_for_response, initialized, last_turn,
          last_validation, disk, vector_store, load_attempts, last_kb,
          last_match, last_build>>

storeVars == <<metadata_df, embeddings, last_search>>
sessionVars == <<messages, user_info, conversation_phase, waiting_for_response,
                 initialized, last_turn>>
validationVars == <<last_validation>>
kbVars == <<disk, vector_store, load_attempts, last_kb>>
matchVars == <<last_match>>
buildVars == <<last_build>>

-----------------------------------------------------------------------------
(* Bounds of the model.                                                    *)

MaxRecords == 2
MaxTieRecords == 7
MaxTopK == 2

-----------------------------------------------------------------------------
(* Sequence helpers.                                                       *)

Reverse(s) == [i \in 1..Len(s) |-> s[Len(s) + 1 - i]]

Range(s) == {s[i] : i \in 1..Len(s)}

Min(a, b) == IF a < b THEN a ELSE b

\* The increasing sequence of the members of a set of integers
\* (what np.arange and np.intersect1d return: sorted, unique).
RECURSIVE SortedSeq(_)
SortedSeq(S) ==
    IF S = {} THEN <<>>
    ELSE LET m == CHOOSE x \in S : \A y \in S : x <= y
         IN  <<m>> \o SortedSeq(S \ {m})

\* list.index(x): the first position holding x.
IndexOf(s, x) == CHOOSE i \in 1..Len(s) : s[i] = x /\ \A j \in 1..(i - 1) : s[j] # x

SeqsUpTo(S, n) == UNION {[1..k -> S] : k \in 0..n}

-----------------------------------------------------------------------------
(* Cosine similarity.  Vectors have small integer coordinates.  A score is *)
(* kept exactly, as the rational sgn(d) * d^2 / (|a|^2 * |b|^2) with       *)
(* d = a . b, which orders as the cosine d / (|a| * |b|) does; nan marks   *)
(* the 0/0 that numpy evaluates to NaN (a warning, no exception) when      *)
(* either vector has zero norm.                                            *)

Dot(a, b) == a[1] * b[1] + a[2] * b[2]

Sgn(x) == IF x > 0 THEN 1 ELSE IF x < 0 THEN -1 ELSE 0

cosine_similarity(a, b) ==
    LET d   == Dot(a, b)
        den == Dot(a, a) * Dot(b, b)
    IN  [nan |-> den = 0, num |-> Sgn(d) * d * d, den |-> den]

\* x < y on floats: false whenever either side is NaN.
ScoreLt(x, y) == ~x.nan /\ ~y.nan /\ x.num * y.den < y.num * x.den

\* x == y on floats: false whenever either side is NaN.
ScoreEq(x, y) == ~x.nan /\ ~y.nan /\ x.num * y.den = y.num * x.den

\* The same float value (NaN taken as the same as NaN).
ScoreSame(x, y) == (x.nan /\ y.nan) \/ ScoreEq(x, y)

-----------------------------------------------------------------------------
(* list.sort(key=lambda x: x[1], reverse=True) as CPython runs it on a     *)
(* list shorter than 64: the list is reversed, the leading run is found    *)
(* (and reversed when strictly descending), the rest is placed by binary   *)
(* insertion, every comparison being key < key, and the list is reversed   *)
(* again.  Entries are <<idx, similarity>>.                                *)

KeyLt(x, y) == ScoreLt(x[2], y[2])

RECURSIVE DescRunEnd(_, _)
DescRunEnd(a, i) ==
    IF i < Len(a) /\ KeyLt(a[i + 1], a[i]) THEN DescRunEnd(a, i + 1) ELSE i

RECURSIVE AscRunEnd(_, _)
AscRunEnd(a, i) ==
    IF i < Len(a) /\ ~KeyLt(a[i + 1], a[i]) THEN AscRunEnd(a, i + 1) ELSE i

\* count_run: the list with its leading run put in ascending order, and the run's length.
CountRun(a) ==
    IF Len(a) < 2 THEN [list |-> a, run |-> Len(a)]
    ELSE IF KeyLt(a[2], a[1])
         THEN LET e == DescRunEnd(a, 2)
              IN  [list |-> [i \in 1..Len(a) |-> IF i <= e THEN a[e + 1 - i] ELSE a[i]],
                   run  |-> e]
         ELSE [list |-> a, run |-> AscRunEnd(a, 2)]

RECURSIVE BinarySearch(_, _, _, _)
BinarySearch(a, pivot, l, r) ==
    IF l >= r THEN l
    ELSE LET p == l + ((r - l) \div 2)
         IN  IF KeyLt(pivot, a[p]) THEN BinarySearch(a, pivot, l, p)
             ELSE BinarySearch(a, pivot, p + 1, r)

InsertAt(a, start, l) ==
    [i \in 1..Len(a) |->
        IF i < l THEN a[i]
        ELSE IF i = l THEN a[start]
        ELSE IF i <= start THEN a[i - 1]
        ELSE a[i]]

RECURSIVE BinarySort(_, _)
BinarySort(a, start) ==
    IF start > Len(a) THEN a
    ELSE BinarySort(InsertAt(a, start, BinarySearch(a, a[start], 1, start)), start + 1)

SortReverse(s) ==
    LET cr == CountRun(Reverse(s))
    IN  Reverse(BinarySort(cr.list, cr.run + 1))

-----------------------------------------------------------------------------
(* VectorStore.search.                                                     *)

\* create_query_embedding returns None when the embedding call fails.
None == <<>>

Columns == {"hmo", "tier"}

\* The rows whose column key holds value, as index labels.
KeyIndices(df, key, value) == {i \in 1..Len(df) : df[i][key] = value}

\* filter_criteria applied: every key that is a column narrows the indices,
\* a key that is not a column is skipped.
FilteredIndices(df, F) ==
    {i \in 1..Len(df) :
        \A key \in DOMAIN F : key \in Columns => i \in KeyIndices(df, key, F[key])}

Similarities(df, emb, q, filtered) ==
    [p \in 1..Len(filtered) |-> <<filtered[p], cosine_similarity(q, emb[filtered[p]])>>]

\* similarities[:top_k] for top_k >= 0.
Truncate(s, k) == SubSeq(s, 1, Min(k, Len(s)))

\* The similarity reported for idx: the entry of the sorted list at the
\* position idx has in filtered_indices.
ReportedSimilarity(sorted, filtered, idx) == sorted[IndexOf(filtered, idx)][2]

BuildResults(df, sorted, filtered, top_k) ==
    LET top == Truncate(sorted, top_k)
    IN  [i \in 1..Len(top) |->
            [row        |-> top[i][1],
             metadata   |-> df[top[i][1]],
             similarity |-> ReportedSimilarity(sorted, filtered, top[i][1])]]

search(df, emb, q, top_k, F) ==
    IF q = None THEN <<>>
    ELSE LET hasFilter == DOMAIN F # {}
             matched   == IF hasFilter THEN FilteredIndices(df, F) ELSE {}
         IN  IF hasFilter /\ matched = {} THEN <<>>
             ELSE LET filtered == SortedSeq(IF hasFilter THEN matched ELSE 1..Len(df))
                      sorted   == SortReverse(Similarities(df, emb, q, filtered))
                  IN  BuildResults(df, sorted, filtered, top_k)

-----------------------------------------------------------------------------
(* The inputs the model draws from.                                        *)

Hmos == {"maccabi", "clalit"}
Tiers == {"gold", "silver"}
Rows == [hmo : Hmos, tier : Tiers]

ZeroVec == <<0, 0>>
Embeddings == {ZeroVec, <<1, 0>>, <<1, 1>>}

\* What create_query_embedding can return: a vector, or None on failure.
QueryEmbeddings == {None, <<1, 0>>, ZeroVec}

\* filter_criteria: {} (no filter), filters on columns, and filters with a
\* key ("region") that is not a column of the metadata.
NoFilter == <<>>
FilterCriteria ==
    {NoFilter,
     [hmo |-> "maccabi"],
     [hmo |-> "meuhedet"],
     [hmo |-> "maccabi", tier |-> "gold"],
     [region |-> "north"],
     [hmo |-> "clalit", region |-> "north"]}

\* No chat turn on the page.
NoResponse == <<>>

NoTurn ==
    [taken |-> FALSE, request |-> <<>>, status |-> 0, response |-> NoResponse,
     error |-> "none", detail |-> "",
     shown |-> [message |-> "", status_code |-> 0, text |-> ""],
     issued |-> 0, completion |-> <<>>, validations |-> <<>>,
     calls |-> <<>>,
     retrievals |-> <<>>]

\* No corpus files, no store constructed, search_knowledge_base not called.
Absent == [exists |-> FALSE, rows |-> <<>>]
File(rows) == [exists |-> TRUE, rows |-> rows]
NoDisk == [metadata |-> Absent, embeddings |-> Absent, json_data |-> FALSE]
NoStore == [instance |-> FALSE, json_data_dir |-> FALSE]
NoKb ==
    [called |-> FALSE, query |-> "", hmo |-> "", tier |-> "", embedding |-> <<>>,
     filter_criteria |-> <<>>, load |-> "none", result |-> <<>>]

KbInit ==
    /\ disk = NoDisk
    /\ vector_store = NoStore
    /\ load_attempts = 0
    /\ last_kb = NoKb

\* verify_user_information not called yet.
NoValidation == [called |-> FALSE, args |-> <<>>, raised |-> FALSE, result |-> ""]

NoSearch ==
    [called |-> FALSE, query_embedding |-> None, top_k |-> 0,
     filter_criteria |-> NoFilter, results |-> <<>>]

\* match_key_with_checkbox not called yet; no corpus build run yet.
NoMatch == [called |-> FALSE, lines |-> <<>>, marks |-> <<>>, raised |-> FALSE, matches |-> <<>>]
NoBuild ==
    [called |-> FALSE, listing |-> <<>>, embedding_records |-> <<>>,
     metadata_csv |-> <<>>, embeddings_npy |-> <<>>]

SessionInit ==
    /\ messages = <<>>
    /\ user_info = <<>>
    /\ conversation_phase = "information_collection"
    /\ waiting_for_response = FALSE
    /\ initialized = FALSE
    /\ last_turn = NoTurn
    /\ last_validation = NoValidation
    /\ last_match = NoMatch
    /\ last_build = NoBuild

\* The session and the knowledge base before anything has happened.
StoreInit == SessionInit /\ KbInit

\* A loaded store: load_from_directory accepts only as many rows as vectors.
Init ==
    /\ \E n \in 0..MaxRecords :
          /\ metadata_df \in [1..n -> Rows]
          /\ embeddings \in [1..n -> Embeddings]
    /\ last_search = NoSearch
    /\ StoreInit

Search(q, top_k, F) ==
    /\ last_search' =
          [called |-> TRUE, query_embedding |-> q, top_k |-> top_k,
           filter_criteria |-> F,
           results |-> search(metadata_df, embeddings, q, top_k, F)]
    /\ UNCHANGED <<metadata_df, embeddings>>
    /\ UNCHANGED sessionVars
    /\ UNCHANGED validationVars
    /\ UNCHANGED kbVars
    /\ UNCHANGED matchVars
    /\ UNCHANGED buildVars

Next ==
    \E q \in QueryEmbeddings, top_k \in 0..MaxTopK, F \in FilterCriteria :
        Search(q, top_k, F)

Spec == Init /\ [][Next]_vars

\* Longer corpora of one fund and tier, where many candidates tie or have an
\* undefined score, searched with top_k up to the corpus size.
TieRows == {[hmo |-> "maccabi", tier |-> "gold"]}
TieQueryEmbeddings == {<<1, 0>>, <<1, 1>>}
TieFilterCriteria == {NoFilter, [hmo |-> "maccabi"]}

InitTies ==
    /\ \E n \in 0..MaxTieRecords :
          /\ metadata_df \in [1..n -> TieRows]
          /\ embeddings \in [1..n -> Embeddings]
    /\ last_search = NoSearch
    /\ StoreInit

NextTies ==
    \E q \in TieQueryEmbeddings, top_k \in {MaxTopK, MaxTieRecords},
       F \in TieFilterCriteria :
        Search(q, top_k, F)

SpecTies == InitTies /\ [][NextTies]_vars

-----------------------------------------------------------------------------
(* verify_user_information (backend/utils.py).  id_number, hmo_card_number *)
(* and a string age are sequences of characters, so that isdigit, len and  *)
(* int are computed.  The Hebrew literals of the source are written        *)
(* HE_<transliteration>.  A field the tool call leaves out is None         *)
(* (function_args.get returns None).                                       *)

Digits == {"0", "1", "2", "3", "4", "5", "6", "7", "8", "9"}

NoneStr == "None"
NoneChars == <<"None">>

\* str.isdigit(): every character is a digit and there is at least one.
IsDigit(s) == Len(s) > 0 /\ \A i \in 1..Len(s) : s[i] \in Digits

DigitVal(c) ==
    CASE c = "0" -> 0 [] c = "1" -> 1 [] c = "2" -> 2 [] c = "3" -> 3 [] c = "4" -> 4
      [] c = "5" -> 5 [] c = "6" -> 6 [] c = "7" -> 7 [] c = "8" -> 8 [] c = "9" -> 9

RECURSIVE DigitsToInt(_)
DigitsToInt(s) ==
    IF s = <<>> THEN 0 ELSE 10 * DigitsToInt(SubSeq(s, 1, Len(s) - 1)) + DigitVal(s[Len(s)])

\* An age as the tool call carries it: a JSON number, a string, or absent.
AgeInt(n) == [kind |-> "int", int |-> n, str |-> <<>>]
AgeStr(s) == [kind |-> "str", int |-> 0, str |-> s]
AgeNone == [kind |-> "none", int |-> 0, str |-> <<>>]
\* A JSON number with a fraction (the schema types age as "number"); int
\* holds the value in tenths.
AgeFloat(tenths) == [kind |-> "float", int |-> tenths, str |-> <<>>]

\* int(x) of a float: the fraction is dropped, rounding toward zero.
Trunc(tenths) == IF tenths >= 0 THEN tenths \div 10 ELSE 0 - ((0 - tenths) \div 10)

\* int(age) succeeds on an int and on a string of digits with an optional sign.
IntParsable(age) ==
    \/ age.kind = "int"
    \/ age.kind = "float"
    \/ /\ age.kind = "str"
       /\ \/ IsDigit(age.str)
          \/ Len(age.str) > 1 /\ age.str[1] \in {"-", "+"} /\ IsDigit(Tail(age.str))

IntOf(age) ==
    IF age.kind = "int" THEN age.int
    ELSE IF age.kind = "float" THEN Trunc(age.int)
    ELSE IF IsDigit(age.str) THEN DigitsToInt(age.str)
    ELSE IF age.str[1] = "-" THEN 0 - DigitsToInt(Tail(age.str))
    ELSE DigitsToInt(Tail(age.str))

MinAge == 0
MaxAge == 120
IdLength == 9

Genders == {"HE_male", "HE_female", "HE_other"}
HealthFunds == {"HE_maccabi", "HE_meuhedet", "HE_clalit"}
InsuranceTiers == {"HE_gold", "HE_silver", "HE_bronze"}

ValidationSuccessful == "Validation successful."

Returned(msg) == [raised |-> FALSE, result |-> msg]
Raised == [raised |-> TRUE, result |-> ""]

verify_user_information(a) ==
    LET age == IF a.age.kind = "str" /\ IsDigit(a.age.str)
               THEN AgeInt(DigitsToInt(a.age.str)) ELSE a.age
    IN  IF a.id_number = NoneChars THEN Raised
        ELSE IF ~(IsDigit(a.id_number) /\ Len(a.id_number) = IdLength)
        THEN Returned("Invalid ID number format. It must be a 9-digit number.")
        ELSE IF ~IntParsable(age) THEN Raised
        ELSE IF ~(MinAge <= IntOf(age) /\ IntOf(age) <= MaxAge)
        THEN Returned("Invalid age. It must be between 0 and 120.")
        ELSE IF a.hmo_card_number = NoneChars THEN Raised
        ELSE IF ~(IsDigit(a.hmo_card_number) /\ Len(a.hmo_card_number) = IdLength)
        THEN Returned("Invalid HMO card number format. It must be a 9-digit number.")
        ELSE IF a.gender \notin Genders
        THEN Returned("Invalid gender. Must be one of: HE_male, HE_female, HE_other.")
        ELSE IF a.health_fund \notin HealthFunds
        THEN Returned("Invalid health fund. Must be one of: HE_maccabi, HE_meuhedet, HE_clalit.")
        ELSE IF a.insurance_tier \notin InsuranceTiers
        THEN Returned("Invalid insurance tier. Must be one of: HE_gold, HE_silver, HE_bronze.")
        ELSE Returned(ValidationSuccessful)

\* A check that takes any returned validation message for a success.
SuccessfulInAnyResult(result) == result # ""

\* "successful" in validation_result: of the messages verify_user_information
\* returns, only the success message contains the word.
SuccessfulIn(result) == result = ValidationSuccessful

\* The identity records verify_user_information is applied to: each field
\* valid, invalid in the ways the validation tells apart, or absent.
Nine == <<"1", "2", "3", "4", "5", "6", "7", "8", "9">>
IdNumbers == {Nine, SubSeq(Nine, 1, 8), SubSeq(Nine, 1, 8) \o <<"a">>, NoneChars}
CardNumbers == {Reverse(Nine), SubSeq(Nine, 1, 8), NoneChars}
Ages ==
    {AgeInt(30), AgeInt(0), AgeInt(120), AgeInt(121), AgeInt(0 - 1),
     AgeStr(<<"3", "0">>), AgeStr(<<"1", "2", "1">>), AgeStr(<<"a", "b", "c">>),
     AgeFloat(305), AgeFloat(1205), AgeFloat(0 - 5), AgeNone}
IdentityRecords ==
    [full_name : {"HE_dana_cohen", ""},
     id_number : IdNumbers,
     gender : {"HE_female", "X", NoneStr},
     age : Ages,
     health_fund : {"HE_maccabi", "Y"},
     hmo_card_number : CardNumbers,
     insurance_tier : {"HE_gold", "Z"}]

\* One call of verify_user_information on a record.
Verify(a) ==
    /\ last_validation' =
          [called |-> TRUE, args |-> a,
           raised |-> verify_user_information(a).raised,
           result |-> verify_user_information(a).result]
    /\ UNCHANGED storeVars
    /\ UNCHANGED sessionVars
    /\ UNCHANGED kbVars
    /\ UNCHANGED matchVars
    /\ UNCHANGED buildVars

InitVerify ==
    /\ metadata_df = <<>>
    /\ embeddings = <<>>
    /\ last_search = NoSearch
    /\ StoreInit

NextVerify == \E a \in IdentityRecords : Verify(a)

SpecVerify == InitVerify /\ [][NextVerify]_vars

-----------------------------------------------------------------------------
(* search_knowledge_base and the process-wide store                        *)
(* (backend/vector_search.py), over the files VectorStore loads.           *)

MaxLoads == 2
KbTopK == 6

\* A lower() that leaves its argument as it is.
LowerUnchanged(v) == v

\* str.lower() on the values the model draws: the ones with upper-case
\* letters are listed, every other value is in lower case already.
Lower(v) ==
    CASE v = "Maccabi" -> "maccabi"
      [] v = "GOLD" -> "gold"
      [] OTHER -> v

hmo_mapping == [HE_maccabi |-> "maccabi", HE_meuhedet |-> "meuhedet", HE_clalit |-> "clalit"]
tier_mapping == [HE_gold |-> "gold", HE_silver |-> "silver", HE_bronze |-> "bronze"]

\* mapping.get(v, v.lower()).
MappingGet(mapping, v) == IF v \in DOMAIN mapping THEN mapping[v] ELSE Lower(v)

\* load_from_directory: raises when a file is absent or the counts differ.
load_from_directory(d) ==
    IF ~d.metadata.exists THEN [raised |-> TRUE, error |-> "Metadata file not found"]
    ELSE IF ~d.embeddings.exists THEN [raised |-> TRUE, error |-> "Embeddings file not found"]
    ELSE IF Len(d.metadata.rows) # Len(d.embeddings.rows)
    THEN [raised |-> TRUE, error |-> "Mismatch between metadata and embeddings"]
    ELSE [raised |-> FALSE, error |-> ""]

\* A store published whatever the constructor did.
AssignedAlways(old, loaded, d) == [instance |-> TRUE, json_data_dir |-> d.json_data]

\* _vector_store = VectorStore(EMBEDDINGS_DIR): the assignment happens only
\* when the constructor returns.
Assigned(old, loaded, d) ==
    IF loaded.raised THEN old ELSE [instance |-> TRUE, json_data_dir |-> d.json_data]

\* get_vector_store: the store, constructed on the first use.
get_vector_store(store, df, emb, d) ==
    IF store.instance
    THEN [raised |-> FALSE, error |-> "", load |-> "none", store |-> store,
          metadata_df |-> df, embeddings |-> emb]
    ELSE LET loaded == load_from_directory(d)
             new    == Assigned(store, loaded, d)
         IN  [raised |-> loaded.raised, error |-> loaded.error,
              load |-> IF loaded.raised THEN "failed" ELSE "loaded",
              store |-> new,
              metadata_df |-> IF new.instance /\ ~loaded.raised THEN d.metadata.rows ELSE df,
              embeddings |-> IF new.instance /\ ~loaded.raised THEN d.embeddings.rows ELSE emb]

\* One entry of formatted_results, read from the json_data of a result.
FormattedResult(result) ==
    [hmo |-> result.metadata.hmo, tier |-> result.metadata.tier,
     similarity |-> result.similarity]

\* The mapping returned from the try block.
KbReturn(results, query, hmo, tier) ==
    [results |-> results, count |-> Len(results), query |-> query, hmo |-> hmo, tier |-> tier]

\* The mapping returned from the except block.
KbError(error, query, hmo, tier) ==
    [results |-> <<>>, count |-> 0, query |-> query, hmo |-> hmo, tier |-> tier,
     error |-> error]

\* search_knowledge_base(query, hmo, tier, top_k): q is what the embedding
\* call gives for query.  The outcome holds the mapping returned and what
\* became of the process-wide store.
search_knowledge_base(store, df, emb, d, query, hmo, tier, q, top_k) ==
    LET same == [load |-> "none", store |-> store, metadata_df |-> df, embeddings |-> emb,
                 filter_criteria |-> NoFilter]
    IN  IF hmo = NoneStr \/ tier = NoneStr
        THEN same @@
             [result |-> KbError("'NoneType' object has no attribute 'lower'", query, hmo, tier)]
        ELSE LET filter_criteria == [hmo |-> MappingGet(hmo_mapping, hmo),
                                     tier |-> MappingGet(tier_mapping, tier)]
                 got == get_vector_store(store, df, emb, d)
                 now == [load |-> got.load, store |-> got.store,
                         metadata_df |-> got.metadata_df, embeddings |-> got.embeddings,
                         filter_criteria |-> filter_criteria]
             IN  IF got.raised
                 THEN now @@ [result |-> KbError(got.error, query, hmo, tier)]
                 ELSE LET results == search(got.metadata_df, got.embeddings, q, top_k,
                                            filter_criteria)
                      IN  IF results # <<>> /\ ~got.store.json_data_dir
                          THEN now @@ [result |->
                                  KbError("'NoneType' object has no attribute 'get'",
                                          query, hmo, tier)]
                          ELSE now @@ [result |->
                                  KbReturn([i \in 1..Len(results) |->
                                               FormattedResult(results[i])],
                                           query, hmo, tier)]

\* The corpus files: each absent, or holding the first n records.
KbRow(i) ==
    IF i % 2 = 1 THEN [hmo |-> "maccabi", tier |-> "gold"]
    ELSE [hmo |-> "clalit", tier |-> "silver"]
KbEmbedding(i) == IF i % 2 = 1 THEN <<1, 0>> ELSE <<1, 1>>
Disks ==
    [metadata : {Absent} \cup {File([i \in 1..n |-> KbRow(i)]) : n \in 0..MaxRecords},
     embeddings : {Absent} \cup {File([i \in 1..n |-> KbEmbedding(i)]) : n \in 0..MaxRecords},
     json_data : BOOLEAN]

KbQueries == {"query_he"}
KbHmos == {"HE_maccabi", "HE_meuhedet", "HE_clalit", "Maccabi", "kupat_x", NoneStr}
KbTiers == {"HE_gold", "HE_silver", "HE_bronze", "GOLD", "platinum", NoneStr}
KbQueryEmbeddings == {None, <<1, 0>>}

\* One request to search_knowledge_base, with the default top_k.
SearchKnowledgeBase(query, hmo, tier, q) ==
    /\ vector_store.instance \/ load_attempts < MaxLoads
    /\ \E out \in {search_knowledge_base(vector_store, metadata_df, embeddings, disk,
                                         query, hmo, tier, q, KbTopK)} :
          /\ vector_store' = out.store
          /\ metadata_df' = out.metadata_df
          /\ embeddings' = out.embeddings
          /\ load_attempts' = load_attempts + (IF out.load = "none" THEN 0 ELSE 1)
          /\ last_kb' =
                [called |-> TRUE, query |-> query, hmo |-> hmo, tier |-> tier,
                 embedding |-> q, filter_criteria |-> out.filter_criteria,
                 load |-> out.load, result |-> out.result]
    /\ UNCHANGED <<disk, last_search>>
    /\ UNCHANGED sessionVars
    /\ UNCHANGED validationVars
    /\ UNCHANGED matchVars
    /\ UNCHANGED buildVars

InitKb ==
    /\ metadata_df = <<>>
    /\ embeddings = <<>>
    /\ last_search = NoSearch
    /\ SessionInit
    /\ disk \in Disks
    /\ vector_store = NoStore
    /\ load_attempts = 0
    /\ last_kb = NoKb

NextKb ==
    \E query \in KbQueries, hmo \in KbHmos, tier \in KbTiers, q \in KbQueryEmbeddings :
        SearchKnowledgeBase(query, hmo, tier, q)

SpecKb == InitKb /\ [][NextKb]_vars

-----------------------------------------------------------------------------
(* The /chat handler (backend/main.py).  What the language model does in a *)
(* turn is an input: tcs, the tool calls of its first completion (each a   *)
(* name and its parsed arguments), and fail_at, the number of the          *)
(* completion call of the turn that raises (0: none does).                 *)

MaxToolCalls == 2
MaxTurns == 2

VerifyName == "verify_user_information"
GetInformationName == "get_information"

InformationCollection == "information_collection"
Qa == "qa"

\* The text of the n-th completion of a turn.
Content(n) == IF n = 1 THEN "completion_1" ELSE IF n = 2 THEN "completion_2" ELSE "completion_3"

SystemMessage(prompt) == [role |-> "system", content |-> prompt]

ToolCallId(k) == IF k = 1 THEN "call_1" ELSE IF k = 2 THEN "call_2" ELSE "call_3"

\* response_message.model_dump(): the assistant message with its tool calls.
ModelDump(content, tcs) ==
    [role |-> "assistant", content |-> content,
     tool_calls |-> [k \in 1..Len(tcs) |->
                        [id |-> ToolCallId(k), name |-> tcs[k].name,
                         arguments |-> tcs[k].arguments]]]

FunctionResponse(k, name, content) ==
    [role |-> "tool", tool_call_id |-> ToolCallId(k), name |-> name, content |-> content]

ToolCallEntry(k, tc) ==
    [id |-> ToolCallId(k), function |-> [name |-> tc.name, arguments |-> tc.arguments]]

NoUserInfo == <<>>
NoBody == <<>>

\* What was raised inside the handler, if anything: get_chat_completion
\* failing, verify_user_information raising, or an HTTPException(400).
NoError == "none"
CompletionFailed == "get_chat_completion raised"
ValidationRaised == "verify_user_information raised"
BadRequest == "HTTPException(400)"

\* A process_qa that hands back the default phase of a request.
QaResponsePhaseDefault == InformationCollection

\* The conversation_phase process_qa puts in its response.
QaResponsePhase == Qa

\* A client that issues a failing call a second time before giving up.
get_chat_completion_reissued(n, fail_at) ==
    [raised |-> fail_at = n, issued |-> IF fail_at = n THEN 2 ELSE 1]

\* OpenAIClient.get_chat_completion, the n-th of a turn: one call to the
\* API, whose exception, if any, is passed on.
get_chat_completion(n, fail_at) == [raised |-> fail_at = n, issued |-> 1]

\* The locals of the handler after its n-th completion call was issued.
Issued(st, n, fail_at) == [st EXCEPT !.issued = @ + get_chat_completion(n, fail_at).issued]

\* The loop of process_information_collection over response_message.tool_calls.
\* st holds the locals of the handler; calls and validations record the
\* completion calls made and the validation results obtained.
RECURSIVE CollectLoop(_, _, _, _, _)
CollectLoop(st, tcs, k, fail_at, dump) ==
    IF st.error # NoError \/ k > Len(tcs) THEN st
    ELSE LET tc  == tcs[k]
             st1 == [st EXCEPT !.tool_calls = Append(@, ToolCallEntry(k, tc))]
         IN  IF tc.name # VerifyName THEN CollectLoop(st1, tcs, k + 1, fail_at, dump)
             ELSE LET v == verify_user_information(tc.arguments)
                  IN  IF v.raised THEN [st1 EXCEPT !.error = ValidationRaised]
                      ELSE LET msgs == st1.messages \o
                                         <<dump, FunctionResponse(k, tc.name, v.result)>>
                               n    == Len(st1.calls) + 1
                               st2  == Issued([st1 EXCEPT !.user_info = tc.arguments,
                                                          !.messages = msgs,
                                                          !.validations = Append(@, v.result)],
                                              n, fail_at)
                           IN  IF get_chat_completion(n, fail_at).raised
                               THEN [st2 EXCEPT !.error = CompletionFailed]
                               ELSE CollectLoop(
                                      [st2 EXCEPT
                                         !.calls = Append(@, [messages |-> msgs, functions |-> <<>>]),
                                         !.message_to_add =
                                             [role |-> "assistant", content |-> Content(n)],
                                         !.conversation_phase =
                                             IF SuccessfulIn(v.result) THEN Qa ELSE @],
                                      tcs, k + 1, fail_at, dump)

\* str(e) of what was raised: the text of the exception of the failing call.
ExceptionText(error) ==
    CASE error = CompletionFailed -> "Error code: 401 - Access denied due to invalid subscription key"
      [] error = ValidationRaised -> "int() argument must be a string, a bytes-like object or a real number, not 'NoneType'"
      [] error = BadRequest -> "400: detail of the HTTPException"
      [] OTHER -> ""

\* The detail of the HTTPException(500) chat raises.
Detail(error) == ExceptionText(error)

Outcome(status, body, st) ==
    [status |-> status, body |-> body, error |-> st.error, issued |-> st.issued,
     detail |-> IF status = 200 THEN "" ELSE Detail(st.error),
     validations |-> st.validations, calls |-> st.calls, retrievals |-> st.retrievals]

Locals(msgs) ==
    [messages |-> msgs, tool_calls |-> <<>>, user_info |-> NoUserInfo,
     conversation_phase |-> InformationCollection,
     message_to_add |-> [role |-> "assistant", content |-> ""],
     calls |-> <<>>, validations |-> <<>>, retrievals |-> <<>>, error |-> NoError,
     issued |-> 0]

\* Anything raised in the handler leaves chat as HTTPException(500).
Failed(error, st) == Outcome(500, NoBody, [st EXCEPT !.error = error])

ChatResponse(st, response, phase, info) ==
    [response |-> response, conversation_phase |-> phase, user_info |-> info,
     tool_calls |-> st.tool_calls,
     message_to_add |-> [role |-> "assistant", content |-> response]]

process_information_collection(request, tcs, fail_at) ==
    LET msgs0 == IF request.messages = <<>> \/ request.messages[1].role # "system"
                 THEN <<SystemMessage("INFORMATION_COLLECTION_PROMPT")>> \o request.messages
                 ELSE request.messages
        st0   == Issued(Locals(msgs0), 1, fail_at)
    IN  IF get_chat_completion(1, fail_at).raised THEN Failed(CompletionFailed, st0)
        ELSE LET content == IF tcs = <<>> THEN Content(1) ELSE ""
                 st1 == [st0 EXCEPT
                           !.calls = <<[messages |-> msgs0, functions |-> <<VerifyName>>]>>,
                           !.message_to_add = [role |-> "assistant", content |-> content]]
                 st2 == CollectLoop(st1, tcs, 1, fail_at, ModelDump(content, tcs))
             IN  IF st2.error # NoError THEN Failed(st2.error, st2)
                 ELSE Outcome(200,
                              ChatResponse(st2, st2.message_to_add.content,
                                           st2.conversation_phase, st2.user_info),
                              st2)

\* dict.get(key, default).
Get(args, key, default) == IF key \in DOMAIN args THEN args[key] ELSE default

\* The system message whose content is build_qa_prompt(user_info): the
\* template filled with three fields of user_info.
build_qa_prompt(info) ==
    [role |-> "system", content |-> "QA_PROMPT_TEMPLATE",
     full_name |-> Get(info, "full_name", ""),
     health_fund |-> Get(info, "health_fund", ""),
     insurance_tier |-> Get(info, "insurance_tier", "")]

\* prepare_messages_for_qa (backend/utils.py).
prepare_messages_for_qa(user_query, info, history) ==
    LET m1 == IF history = <<>> \/ history[1].role # "system"
              THEN <<build_qa_prompt(info)>> \o history
              ELSE history
    IN  IF m1[Len(m1)].role # "user" \/ m1[Len(m1)].content # user_query
        THEN Append(m1, [role |-> "user", content |-> user_query])
        ELSE m1

\* The content of the last message of role user, None when there is none.
RECURSIVE LastUserContent(_)
LastUserContent(msgs) ==
    IF msgs = <<>> THEN NoneStr
    ELSE IF msgs[Len(msgs)].role = "user" THEN msgs[Len(msgs)].content
    ELSE LastUserContent(SubSeq(msgs, 1, Len(msgs) - 1))

\* A get_information called with the stored fund and tier whatever the
\* model supplied.
RetrievalCallStored(args, info) ==
    [query |-> Get(args, "query", ""),
     hmo   |-> Get(info, "health_fund", ""),
     tier  |-> Get(info, "insurance_tier", "")]

\* The arguments get_information is called with.
RetrievalCall(args, info) ==
    [query |-> Get(args, "query", ""),
     hmo   |-> Get(args, "hmo", Get(info, "health_fund", "")),
     tier  |-> Get(args, "tier", Get(info, "insurance_tier", ""))]

\* A history the function response is not added to.
WithoutFunctionResponse(msgs, function_response) == msgs

\* messages.append(function_response).
WithFunctionResponse(msgs, function_response) == Append(msgs, function_response)

\* The loop of process_qa over response_message.tool_calls.
RECURSIVE QaLoop(_, _, _, _)
QaLoop(st, tcs, k, info) ==
    IF k > Len(tcs) THEN st
    ELSE LET tc  == tcs[k]
             st1 == [st EXCEPT !.tool_calls = Append(@, ToolCallEntry(k, tc))]
         IN  IF tc.name # GetInformationName THEN QaLoop(st1, tcs, k + 1, info)
             ELSE LET call == RetrievalCall(tc.arguments, info)
                  IN  QaLoop([st1 EXCEPT
                                !.retrievals = Append(@, call),
                                !.messages = WithFunctionResponse(@,
                                                FunctionResponse(k, tc.name,
                                                                 "get_information_result"))],
                             tcs, k + 1, info)

process_qa(request, tcs, fail_at) ==
    LET msgs  == request.messages
        st0   == Locals(msgs)
        query == LastUserContent(msgs)
    IN  IF request.user_info = NoUserInfo THEN Failed(BadRequest, st0)
        ELSE IF query = NoneStr \/ query = "" THEN Failed(BadRequest, st0)
        ELSE IF get_chat_completion(1, fail_at).raised
        THEN Failed(CompletionFailed, Issued(st0, 1, fail_at))
        ELSE LET qa_messages == prepare_messages_for_qa(query, request.user_info, msgs)
                 st1 == [Issued(st0, 1, fail_at) EXCEPT
                           !.calls = <<[messages |-> qa_messages,
                                        functions |-> <<GetInformationName>>]>>]
             IN  IF tcs = <<>>
                 THEN Outcome(200, ChatResponse(st1, Content(1), QaResponsePhase,
                                                request.user_info), st1)
                 ELSE LET st2 == Issued(QaLoop([st1 EXCEPT
                                                   !.messages = Append(@, ModelDump("", tcs))],
                                               tcs, 1, request.user_info),
                                        2, fail_at)
                      IN  IF get_chat_completion(2, fail_at).raised
                          THEN Failed(CompletionFailed, st2)
                          ELSE LET st3 == [st2 EXCEPT !.calls =
                                              Append(@, [messages |-> st2.messages,
                                                         functions |-> <<>>])]
                               IN  Outcome(200, ChatResponse(st3, Content(2), QaResponsePhase,
                                                             request.user_info), st3)

\* chat: the handler of POST /chat.  Whatever is raised inside, the
\* HTTPException(400) of an invalid phase included, is caught and raised
\* again as status 500.
chat(request, tcs, fail_at) ==
    IF request.conversation_phase = InformationCollection
    THEN process_information_collection(request, tcs, fail_at)
    ELSE IF request.conversation_phase = Qa
    THEN process_qa(request, tcs, fail_at)
    ELSE Failed(BadRequest, Locals(request.messages))

-----------------------------------------------------------------------------
(* The Streamlit session (frontend/app.py).                                *)

WelcomeMessage == [role |-> "assistant", content |-> "welcome_message"]

\* A chat_with_api that hands back a body whatever the status, the body of
\* a failure read as a response with the defaults of ChatResponse.
chat_with_api_any_status(out) ==
    IF out.status = 200 THEN out.body
    ELSE [response |-> out.detail, conversation_phase |-> InformationCollection,
          user_info |-> NoUserInfo, tool_calls |-> <<>>,
          message_to_add |-> [role |-> "assistant", content |-> out.detail]]

\* chat_with_api: the JSON body of a 200 answer, None for any other status.
chat_with_api(out) == IF out.status = 200 THEN out.body ELSE NoResponse

\* What st.error shows of a failed call: the status and the text of the body.
NothingShown == [message |-> "", status_code |-> 0, text |-> ""]
ErrorShown(out) ==
    IF out.status = 200 THEN NothingShown
    ELSE [message |-> "API Error", status_code |-> out.status, text |-> out.detail]

\* A history that keeps only the message added.
add_message_only(msgs, role, content) == <<[role |-> role, content |-> content]>>

\* add_message: st.session_state.messages.append.
add_message(msgs, role, content) == Append(msgs, [role |-> role, content |-> content])

UserTurns(msgs) == Cardinality({i \in 1..Len(msgs) : msgs[i].role = "user"})

\* The arguments a verify_user_information tool call can carry.
ValidArgs ==
    [full_name |-> "HE_dana_cohen",
     id_number |-> <<"1", "2", "3", "4", "5", "6", "7", "8", "9">>,
     gender |-> "HE_female",
     age |-> AgeInt(30),
     health_fund |-> "HE_maccabi",
     hmo_card_number |-> <<"9", "8", "7", "6", "5", "4", "3", "2", "1">>,
     insurance_tier |-> "HE_gold"]

VerifyArgs ==
    {ValidArgs,
     [ValidArgs EXCEPT !.gender = "X"],
     [ValidArgs EXCEPT !.full_name = ""],
     [ValidArgs EXCEPT !.age = AgeNone]}

QaArgs ==
    {[query |-> "query_he", hmo |-> "HE_clalit", tier |-> "HE_silver"],
     [query |-> "query_he", tier |-> "HE_silver"],
     [query |-> "query_he"]}

OtherToolCall == [name |-> "other_function", arguments |-> <<>>]

CollectToolCalls == {[name |-> VerifyName, arguments |-> a] : a \in VerifyArgs} \cup {OtherToolCall}
QaToolCalls == {[name |-> GetInformationName, arguments |-> a] : a \in QaArgs} \cup {OtherToolCall}

UserInputs == {"user_text"}

\* main(), first run of the script: the welcome message is added once.
FirstRun ==
    /\ ~initialized
    /\ messages' = add_message(messages, WelcomeMessage.role, WelcomeMessage.content)
    /\ initialized' = TRUE
    /\ UNCHANGED <<user_info, conversation_phase, waiting_for_response, last_turn>>
    /\ UNCHANGED storeVars
    /\ UNCHANGED validationVars
    /\ UNCHANGED kbVars
    /\ UNCHANGED matchVars
    /\ UNCHANGED buildVars

\* The completion calls a turn can make: process_qa makes one, and a second
\* one after tool calls; process_information_collection makes one, and one
\* more after each verify_user_information tool call.
RECURSIVE VerifyCalls(_)
VerifyCalls(tcs) ==
    IF tcs = <<>> THEN 0
    ELSE (IF Head(tcs).name = VerifyName THEN 1 ELSE 0) + VerifyCalls(Tail(tcs))

CompletionCalls(phase, tcs) ==
    IF phase = Qa THEN (IF tcs = <<>> THEN 1 ELSE 2) ELSE 1 + VerifyCalls(tcs)

\* main(), the form submitted with user_input: one chat turn.  last_turn
\* keeps what the turn sent and received (the page's debug output).
Submit(user_input, tcs, fail_at) ==
    /\ initialized
    /\ ~last_turn.taken
    /\ user_input # ""
    /\ ~waiting_for_response
    /\ UserTurns(messages) < MaxTurns
    /\ LET sent    == add_message(messages, "user", user_input)
           request == [messages |-> sent, user_info |-> user_info,
                       conversation_phase |-> conversation_phase]
       IN  \E out \in {chat(request, tcs, fail_at)} :
             LET response == chat_with_api(out)
             IN  /\ messages' =
                       IF response # NoResponse
                       THEN add_message(sent, "assistant", response.response)
                       ELSE sent
                 /\ user_info' =
                       IF response # NoResponse /\ response.user_info # NoUserInfo
                       THEN response.user_info ELSE user_info
                 /\ conversation_phase' =
                       IF response # NoResponse
                          /\ response.conversation_phase # conversation_phase
                       THEN response.conversation_phase ELSE conversation_phase
                 /\ waiting_for_response' = FALSE
                 /\ last_turn' =
                       [taken |-> TRUE, request |-> request, status |-> out.status,
                        response |-> response, error |-> out.error,
                        detail |-> out.detail, shown |-> ErrorShown(out),
                        completion |-> tcs, issued |-> out.issued,
                        validations |-> out.validations,
                        calls |-> out.calls, retrievals |-> out.retrievals]
    /\ UNCHANGED initialized
    /\ UNCHANGED storeVars
    /\ UNCHANGED validationVars
    /\ UNCHANGED kbVars
    /\ UNCHANGED matchVars
    /\ UNCHANGED buildVars

\* st.experimental_rerun() after a turn: the script runs again and redraws
\* the page from the session state; the debug output of the turn is gone.
Rerun ==
    /\ last_turn.taken
    /\ last_turn' = NoTurn
    /\ UNCHANGED <<messages, user_info, conversation_phase, waiting_for_response,
                   initialized>>
    /\ UNCHANGED storeVars
    /\ UNCHANGED validationVars
    /\ UNCHANGED kbVars
    /\ UNCHANGED matchVars
    /\ UNCHANGED buildVars

\* main(), "Reset Conversation" pressed: the session state is cleared and the
\* script reruns, which adds the welcome message again.
Reset ==
    /\ initialized
    /\ ~last_turn.taken
    /\ messages' = <<WelcomeMessage>>
    /\ user_info' = NoUserInfo
    /\ conversation_phase' = InformationCollection
    /\ waiting_for_response' = FALSE
    /\ initialized' = TRUE
    /\ last_turn' = NoTurn
    /\ UNCHANGED storeVars
    /\ UNCHANGED validationVars
    /\ UNCHANGED kbVars
    /\ UNCHANGED matchVars
    /\ UNCHANGED buildVars

InitChat ==
    /\ metadata_df = <<>>
    /\ embeddings = <<>>
    /\ last_search = NoSearch
    /\ StoreInit

NextChat ==
    \/ FirstRun
    \/ \E user_input \in UserInputs :
          \E tcs \in SeqsUpTo(IF conversation_phase = Qa THEN QaToolCalls ELSE CollectToolCalls,
                              MaxToolCalls) :
              \E fail_at \in 0..CompletionCalls(conversation_phase, tcs) :
                  Submit(user_input, tcs, fail_at)
    \/ Rerun
    \/ Reset

SpecChat == InitChat /\ [][NextChat]_vars

\* Requests posted to /chat by any client: histories with and without a user
\* message, with and without user_info, in the two phases and in a phase
\* the backend does not know.
ApiHistories ==
    {<<>>,
     <<WelcomeMessage>>,
     <<[role |-> "user", content |-> "user_text"]>>,
     <<WelcomeMessage, [role |-> "user", content |-> "user_text"]>>,
     <<WelcomeMessage, [role |-> "user", content |-> "user_text"],
       [role |-> "assistant", content |-> "completion_1"]>>}
ApiPhases == {InformationCollection, Qa, "unknown_phase"}
ChatRequests ==
    [messages : ApiHistories, user_info : {NoUserInfo, ValidArgs},
     conversation_phase : ApiPhases]

\* One POST /chat; the session of the page has no part in it.
PostChat(request, tcs, fail_at) ==
    /\ ~last_turn.taken
    /\ \E out \in {chat(request, tcs, fail_at)} :
          last_turn' =
              [taken |-> TRUE, request |-> request, status |-> out.status,
               response |-> IF out.status = 200 THEN out.body ELSE NoResponse,
               error |-> out.error, detail |-> out.detail, shown |-> NothingShown,
               completion |-> tcs, issued |-> out.issued,
               validations |-> out.validations,
               calls |-> out.calls, retrievals |-> out.retrievals]
    /\ UNCHANGED <<messages, user_info, conversation_phase, waiting_for_response,
                   initialized>>
    /\ UNCHANGED storeVars
    /\ UNCHANGED validationVars
    /\ UNCHANGED kbVars
    /\ UNCHANGED matchVars
    /\ UNCHANGED buildVars

NextApi ==
    \E request \in ChatRequests :
        \E tcs \in SeqsUpTo(IF request.conversation_phase = Qa
                             THEN QaToolCalls ELSE CollectToolCalls, MaxToolCalls) :
            \E fail_at \in 0..CompletionCalls(request.conversation_phase, tcs) :
                PostChat(request, tcs, fail_at)

SpecApi == InitChat /\ [][NextApi]_vars

-----------------------------------------------------------------------------
(* The checkbox matcher of the form extractor (phase1/ocr_extractor.py).   *)
(* A polygon is a list of points with small integer coordinates.  A centre *)
(* is kept exactly, as the sums of the coordinates and the number of       *)
(* points (x = sx / n, y = sy / n); a distance is kept as the rational     *)
(* num / den of its square, which orders as math.dist does, the initial   *)
(* best_dist float('inf') being 1 / 0.                                     *)

MaxLines == 2
MaxMarks == 2

RECURSIVE SumCoord(_, _)
SumCoord(points, key) ==
    IF points = <<>> THEN 0 ELSE points[1][key] + SumCoord(Tail(points), key)

\* compute_center: the mean of the points.  Dividing by len(points) raises
\* ZeroDivisionError on a polygon without points.
compute_center(points) ==
    [raised |-> Len(points) = 0,
     sx |-> SumCoord(points, "x"), sy |-> SumCoord(points, "y"), n |-> Len(points)]

\* mx > lx for the centres of a mark and a line.
RightOf(mark_center, line_center) ==
    mark_center.sx * line_center.n > line_center.sx * mark_center.n

Sq(x) == x * x

\* math.dist(line_center, mark_center), squared.
dist(line_center, mark_center) ==
    [num |-> Sq(mark_center.sx * line_center.n - line_center.sx * mark_center.n)
             + Sq(mark_center.sy * line_center.n - line_center.sy * mark_center.n),
     den |-> Sq(line_center.n * mark_center.n)]

\* dist < best_dist.
DistLt(d, best_dist) == d.num * best_dist.den < best_dist.num * d.den

\* The first inner loop: the marks whose centre is to the right of the line's.
valid_marks(line_center, marks) ==
    SelectSeq(marks, LAMBDA mark : RightOf(compute_center(mark.position), line_center))

\* The second inner loop from the k-th valid mark on; best_mark is a
\* position in valid_marks, 0 for None.
RECURSIVE BestMark(_, _, _, _, _)
BestMark(line_center, valid, k, best_mark, best_dist) ==
    IF k > Len(valid) THEN best_mark
    ELSE LET d == dist(line_center, compute_center(valid[k].position))
         IN  IF DistLt(d, best_dist)
             THEN BestMark(line_center, valid, k + 1, k, d)
             ELSE BestMark(line_center, valid, k + 1, best_mark, best_dist)

\* matched_mark_state of a line without a mark.
NoMark == "None"

\* One iteration of the outer loop: the entry appended for a line.
MatchLine(line, marks) ==
    LET line_center == compute_center(line.position)
        valid       == valid_marks(line_center, marks)
        best_mark   == BestMark(line_center, valid, 1, 0, [num |-> 1, den |-> 0])
    IN  [line_content       |-> line.content,
         matched_mark_state |-> IF best_mark # 0 THEN valid[best_mark].state ELSE NoMark]

\* An iteration of the outer loop raises when the line or any mark has no points.
LineRaises(line, marks) ==
    \/ compute_center(line.position).raised
    \/ \E k \in 1..Len(marks) : compute_center(marks[k].position).raised

match_key_with_checkbox(lines, marks) ==
    IF \E i \in 1..Len(lines) : LineRaises(lines[i], marks)
    THEN [raised |-> TRUE, matches |-> <<>>]
    ELSE [raised |-> FALSE,
          matches |-> [i \in 1..Len(lines) |-> MatchLine(lines[i], marks)]]

Point(x, y) == [x |-> x, y |-> y]

\* The positions extract_text_and_marks stores: the points of the element's
\* polygon, or no points for an element without one.
Polygons ==
    {<<>>,
     <<Point(0, 1)>>,
     <<Point(1, 0)>>,
     <<Point(1, 2)>>,
     <<Point(0, 0), Point(2, 2)>>}

MarkStates == {"selected", "unselected"}
KeyLines == [content : {"male", "female"}, position : Polygons]
SelectionMarks == [state : MarkStates, position : Polygons]

\* One call of match_key_with_checkbox, the one extract_text_and_marks makes.
MatchKeyWithCheckbox(lines, marks) ==
    /\ ~last_match.called
    /\ last_match' =
          [called |-> TRUE, lines |-> lines, marks |-> marks,
           raised |-> match_key_with_checkbox(lines, marks).raised,
           matches |-> match_key_with_checkbox(lines, marks).matches]
    /\ UNCHANGED storeVars
    /\ UNCHANGED sessionVars
    /\ UNCHANGED validationVars
    /\ UNCHANGED kbVars
    /\ UNCHANGED buildVars

NextMatch ==
    \E lines \in SeqsUpTo(KeyLines, MaxLines), marks \in SeqsUpTo(SelectionMarks, MaxMarks) :
        MatchKeyWithCheckbox(lines, marks)

SpecMatch == InitChat /\ [][NextMatch]_vars

-----------------------------------------------------------------------------
(* The corpus build (backend/embed_knowledge_base.py).  The processed-data *)
(* directory is given as its files in the order the three nested           *)
(* os.listdir loops reach them: a file is the names of its service         *)
(* directory, its fund directory and itself, what json.load makes of it    *)
(* and whether the embedding call made for it succeeds.  A name is a       *)
(* sequence of tokens, "_" and ".json" being tokens of their own.          *)

MaxFiles == 3

\* tier_file.endswith('.json')
EndsWithJson(tier_file) == Len(tier_file) > 0 /\ tier_file[Len(tier_file)] = ".json"

\* tier_file.replace('.json', '')
TierOf(tier_file) == SelectSeq(tier_file, LAMBDA t : t # ".json")

\* os.path.join(processed_data_dir, service_dir, hmo_dir, tier_file)
FilePath(file) == <<file.service, file.hmo, file.tier_file>>

\* f"{service}_{hmo}_{tier}"
RecordId(service, hmo, tier) == service \o <<"_">> \o hmo \o <<"_">> \o tier

\* load_json_file returns None when the file cannot be read or parsed.
NoJson == [loaded |-> FALSE, category |-> ""]
JsonData(category) == [loaded |-> TRUE, category |-> category]

\* prepare_text_for_embedding on a document holding only a category.
prepare_text_for_embedding(json_data) ==
    IF ~json_data.loaded THEN <<>>
    ELSE <<"Category: ", json_data.category, "\n", "Description: ", "\n",
           "HMO: ", "\n", "Tier: ">>

\* The vector the embedding service computes for a text.
EmbeddingOf(text) == IF text[2] = "dental" THEN <<1, 0>> ELSE <<0, 1>>

\* create_embedding: the vector, or None when the call raises.
create_embedding(text, answered) == IF answered THEN EmbeddingOf(text) ELSE None

\* The body of the innermost loop for one file: the records after it.
EmbedFile(embedding_records, file) ==
    IF ~EndsWithJson(file.tier_file) THEN embedding_records
    ELSE IF ~file.json_data.loaded THEN embedding_records
    ELSE LET text      == prepare_text_for_embedding(file.json_data)
             embedding == create_embedding(text, file.answered)
             tier      == TierOf(file.tier_file)
         IN  IF embedding = None THEN embedding_records
             ELSE Append(embedding_records,
                         [id        |-> RecordId(file.service, file.hmo, tier),
                          service   |-> file.service,
                          hmo       |-> file.hmo,
                          tier      |-> tier,
                          file_path |-> FilePath(file),
                          text      |-> text,
                          embedding |-> embedding,
                          json_data |-> file.json_data])

RECURSIVE EmbedFrom(_, _, _)
EmbedFrom(listing, k, embedding_records) ==
    IF k > Len(listing) THEN embedding_records
    ELSE EmbedFrom(listing, k + 1, EmbedFile(embedding_records, listing[k]))

embed_knowledge_base(listing) == EmbedFrom(listing, 1, <<>>)

\* The rows of the DataFrame written by to_csv.
save_embeddings_to_csv(embedding_records) ==
    [i \in 1..Len(embedding_records) |->
        [id        |-> embedding_records[i].id,
         service   |-> embedding_records[i].service,
         hmo       |-> embedding_records[i].hmo,
         tier      |-> embedding_records[i].tier,
         file_path |-> embedding_records[i].file_path,
         text      |-> embedding_records[i].text]]

save_embeddings_to_numpy_reversed(embedding_records) ==
    IF embedding_records = <<>> THEN <<>>
    ELSE Reverse([i \in 1..Len(embedding_records) |-> embedding_records[i].embedding])

\* The rows of the array written by np.save.
save_embeddings_to_numpy(embedding_records) ==
    IF embedding_records = <<>> THEN <<>>
    ELSE [i \in 1..Len(embedding_records) |-> embedding_records[i].embedding]

ServiceDirs == {<<"dental">>, <<"dental", "_", "kids">>}
HmoDirs == {<<"clalit">>, <<"kids", "_", "clalit">>}

\* What a JSON file holds and whether its text gets embedded.
FileOutcomes ==
    {[json_data |-> NoJson, answered |-> FALSE],
     [json_data |-> JsonData("dental"), answered |-> TRUE],
     [json_data |-> JsonData("dental"), answered |-> FALSE],
     [json_data |-> JsonData("optometry"), answered |-> TRUE]}

CorpusFiles ==
    {[service |-> sv, hmo |-> h, tier_file |-> <<"gold", ".json">>,
      json_data |-> o.json_data, answered |-> o.answered] :
        sv \in ServiceDirs, h \in HmoDirs, o \in FileOutcomes}
    \cup {[service |-> <<"dental">>, hmo |-> <<"clalit">>, tier_file |-> <<"notes", ".txt">>,
           json_data |-> NoJson, answered |-> FALSE]}

\* A listing the nested loops can produce: no path twice, the files of one
\* service directory together, and within it those of one fund directory.
IsTraversal(listing) ==
    /\ \A i, j \in 1..Len(listing) :
          FilePath(listing[i]) = FilePath(listing[j]) => i = j
    /\ \A i, j, k \in 1..Len(listing) :
          (i < j /\ j < k) =>
             /\ listing[i].service = listing[k].service
                   => listing[j].service = listing[i].service
             /\ (listing[i].service = listing[k].service /\ listing[i].hmo = listing[k].hmo)
                   => listing[j].hmo = listing[i].hmo

\* One run of the build script: embed_knowledge_base, then the two saves.
Build(listing) ==
    /\ ~last_build.called
    /\ \E embedding_records \in {embed_knowledge_base(listing)} :
          last_build' =
             [called |-> TRUE, listing |-> listing,
              embedding_records |-> embedding_records,
              metadata_csv |-> save_embeddings_to_csv(embedding_records),
              embeddings_npy |-> save_embeddings_to_numpy(embedding_records)]
    /\ UNCHANGED storeVars
    /\ UNCHANGED sessionVars
    /\ UNCHANGED validationVars
    /\ UNCHANGED kbVars
    /\ UNCHANGED matchVars

NextBuild ==
    \E listing \in {l \in SeqsUpTo(CorpusFiles, MaxFiles) : IsTraversal(l)} : Build(listing)

SpecBuild == InitChat /\ [][NextBuild]_vars

-----------------------------------------------------------------------------
(* Properties of VectorStore.search.                                       *)

Results == last_search.results

\* The cosine similarity of the query with the embedding of the record a result holds.
OwnSimilarity(r) == cosine_similarity(last_search.query_embedding, embeddings[r.row])

\* A row satisfies F exactly: it has every key of F, with F's value.
Satisfies(row, F) == \A key \in DOMAIN F : key \in DOMAIN row /\ row[key] = F[key]

\* The rows of the corpus matching all supplied filters (all rows when none is supplied).
Matching(F) == {i \in 1..Len(metadata_df) : Satisfies(metadata_df[i], F)}

\* The candidates search ranks.
Candidates(F) ==
    IF DOMAIN F # {} THEN FilteredIndices(metadata_df, F) ELSE 1..Len(metadata_df)

\* C1: search returns at most top_k results, and the metadata of every
\* returned record has, for every key of the filter, the filter's value
\* (a key that is no metadata column included).
C1_AtMostTopKAllSatisfyFilter ==
    last_search.called =>
        /\ Len(Results) <= last_search.top_k
        /\ \A i \in 1..Len(Results) :
              Satisfies(Results[i].metadata, last_search.filter_criteria)

\* C2: the similarity values reported on the results never increase from
\* one result to the next.
C2_ReportedSimilarityNonIncreasing ==
    last_search.called =>
        \A i \in 1..(Len(Results) - 1) :
            ~ScoreLt(Results[i].similarity, Results[i + 1].similarity)

\* C3: every result carries the cosine similarity of the query with that
\* result's own embedding.
C3_SimilarityIsOwnScore ==
    last_search.called =>
        \A i \in 1..Len(Results) :
            ScoreSame(Results[i].similarity, OwnSimilarity(Results[i]))

\* C4: search, once the query is embedded, returns exactly min(top_k, M)
\* results, M being the number of records that match all supplied filters
\* (the whole corpus without filters).
C4_ExactlyMinTopKMatching ==
    (last_search.called /\ last_search.query_embedding # None) =>
        Len(Results) =
            Min(last_search.top_k, Cardinality(Matching(last_search.filter_criteria)))

\* C5: candidates with equal similarity score are returned in corpus row order.
C5_TiesInRowOrder ==
    last_search.called =>
        \A i, j \in 1..Len(Results) :
            (i < j /\ ScoreEq(OwnSimilarity(Results[i]), OwnSimilarity(Results[j])))
                => Results[i].row < Results[j].row

\* C6: a candidate whose similarity is undefined (a zero norm) is never
\* ranked above a candidate with a defined similarity, and never takes the
\* place of one in the top_k.
C6_UndefinedScoreRanksLast ==
    (last_search.called /\ last_search.query_embedding # None) =>
        /\ \A i, j \in 1..Len(Results) :
              (i < j /\ OwnSimilarity(Results[i]).nan) => OwnSimilarity(Results[j]).nan
        /\ (\E i \in 1..Len(Results) : OwnSimilarity(Results[i]).nan) =>
              \A c \in Candidates(last_search.filter_criteria) :
                  ~cosine_similarity(last_search.query_embedding, embeddings[c]).nan
                      => \E i \in 1..Len(Results) : Results[i].row = c

-----------------------------------------------------------------------------
(* Properties of the conversation.                                         *)

CollectingTurn == last_turn.taken /\ last_turn.request.conversation_phase = InformationCollection
QaTurn == last_turn.taken /\ last_turn.request.conversation_phase = Qa

\* verify_user_information returned the success message in the last turn.
ValidationSucceeded ==
    \E i \in 1..Len(last_turn.validations) : last_turn.validations[i] = ValidationSuccessful

\* C7: once the phase is qa, every later chat turn of the session leaves it qa.
C7_QaStaysQa ==
    [][(conversation_phase = Qa /\ last_turn'.taken) => conversation_phase' = Qa]_vars

\* A turn was taken in phase qa, with a tool call and its follow-up completion.
C7_Witness ==
    QaTurn /\ last_turn.status = 200 /\ Len(last_turn.calls) = 2 /\ conversation_phase = Qa

IdentityValid(info) ==
    /\ info # NoUserInfo
    /\ \A key \in {"full_name", "gender", "health_fund", "insurance_tier"} :
          key \in DOMAIN info /\ info[key] # "" /\ info[key] # NoneStr
    /\ \A key \in {"id_number", "hmo_card_number"} :
          key \in DOMAIN info /\ info[key] # <<>> /\ info[key] # NoneChars
    /\ "age" \in DOMAIN info /\ info.age.kind # "none"
    /\ verify_user_information(info) = Returned(ValidationSuccessful)

\* C9: whenever the phase is qa, the stored identity has all seven fields
\* non-empty and valid.
C9_QaIdentityValid == conversation_phase = Qa => IdentityValid(user_info)

\* C10: while the phase is information_collection the session stores no
\* identity, and a response that leaves the phase there carries no user_info.
C10_NoIdentityWhileCollecting ==
    /\ conversation_phase = InformationCollection => user_info = NoUserInfo
    /\ (last_turn.taken /\ last_turn.response # NoResponse
          /\ last_turn.response.conversation_phase = InformationCollection)
         => last_turn.response.user_info = NoUserInfo

-----------------------------------------------------------------------------
(* Properties of verify_user_information.                                  *)

\* A string of exactly nine digits.
NineDigits(x) == x # NoneChars /\ Len(x) = 9 /\ \A i \in 1..Len(x) : x[i] \in Digits

\* The age is an integer, given as a number or as a string of digits with an
\* optional sign.
AgeIsInteger(age) == age.kind = "int" \/ (age.kind = "str" /\ IntParsable(age))

AgeInRange(age) == AgeIsInteger(age) /\ 0 <= IntOf(age) /\ IntOf(age) <= 120

\* The first field, in the order of the guards, whose value is not valid;
\* "none" when every field is valid.
FirstInvalidField(a) ==
    IF ~NineDigits(a.id_number) THEN "ID number"
    ELSE IF ~AgeInRange(a.age) THEN "age"
    ELSE IF ~NineDigits(a.hmo_card_number) THEN "HMO card number"
    ELSE IF a.gender \notin {"HE_male", "HE_female", "HE_other"} THEN "gender"
    ELSE IF a.health_fund \notin {"HE_maccabi", "HE_meuhedet", "HE_clalit"} THEN "health fund"
    ELSE IF a.insurance_tier \notin {"HE_gold", "HE_silver", "HE_bronze"} THEN "insurance tier"
    ELSE "none"

\* The field a validation message names.
FieldNamed(result) ==
    CASE result = "Invalid ID number format. It must be a 9-digit number." -> "ID number"
      [] result = "Invalid age. It must be between 0 and 120." -> "age"
      [] result = "Invalid HMO card number format. It must be a 9-digit number." -> "HMO card number"
      [] result = "Invalid gender. Must be one of: HE_male, HE_female, HE_other." -> "gender"
      [] result = "Invalid health fund. Must be one of: HE_maccabi, HE_meuhedet, HE_clalit." -> "health fund"
      [] result = "Invalid insurance tier. Must be one of: HE_gold, HE_silver, HE_bronze." -> "insurance tier"
      [] OTHER -> "none"

\* C11: verify_user_information returns the success message exactly when
\* id_number and hmo_card_number are nine digits, age is an integer in
\* [0, 120] and gender, health_fund and insurance_tier are among their literals.
C11_SuccessIffAllFieldsValid ==
    last_validation.called =>
        ((~last_validation.raised /\ last_validation.result = "Validation successful.")
            <=> FirstInvalidField(last_validation.args) = "none")

\* C12: when a field is invalid, the message verify_user_information returns
\* names the first invalid field in the order id_number, age,
\* hmo_card_number, gender, health_fund, insurance_tier.
C12_FirstFailingGuardReported ==
    (last_validation.called /\ ~last_validation.raised
        /\ FirstInvalidField(last_validation.args) # "none") =>
        FieldNamed(last_validation.result) = FirstInvalidField(last_validation.args)

\* C13: a Collecting turn in which the model proposes identity records ends
\* with status 200; verify_user_information raises nothing that ends the turn.
C13_ValidationNeverRaises == CollectingTurn => last_turn.error # ValidationRaised

-----------------------------------------------------------------------------
(* Properties of search_knowledge_base and of the process-wide store.      *)

HasError(result) == "error" \in DOMAIN result

\* The request got as far as the embedding call: the arguments were strings
\* and the store was there (loaded now or before).
ReachedEmbedding ==
    last_kb.called /\ last_kb.hmo # "None" /\ last_kb.tier # "None" /\ last_kb.load # "failed"

\* C14: when the embedding call fails, the mapping search_knowledge_base
\* returns is empty and carries the error field.
C14_EmbeddingFailureLabeled ==
    (ReachedEmbedding /\ last_kb.embedding = <<>>) =>
        (last_kb.result.results = <<>> /\ HasError(last_kb.result))

\* The corpus files cannot be loaded: one is absent, or the counts differ.
DiskUnloadable ==
    \/ ~disk.metadata.exists
    \/ ~disk.embeddings.exists
    \/ Len(disk.metadata.rows) # Len(disk.embeddings.rows)

\* Something failed in the last request: an argument was None, the load or
\* the embedding call failed, or a result had no json_data to reshape.
KbFailure ==
    \/ last_kb.hmo = "None" \/ last_kb.tier = "None"
    \/ last_kb.load = "failed"
    \/ last_kb.embedding = <<>>
    \/ HasError(last_kb.result)

\* C15: search_knowledge_base always returns a mapping with results, count,
\* query, hmo and tier, count being the number of results and the last three
\* the arguments; after a failure results is empty, count is 0 and the error
\* field is present.
C15_AlwaysReturnsContract ==
    last_kb.called =>
        /\ {"results", "count", "query", "hmo", "tier"} \subseteq DOMAIN last_kb.result
        /\ last_kb.result.count = Len(last_kb.result.results)
        /\ last_kb.result.query = last_kb.query
        /\ last_kb.result.hmo = last_kb.hmo
        /\ last_kb.result.tier = last_kb.tier
        /\ KbFailure =>
              /\ last_kb.result.results = <<>>
              /\ last_kb.result.count = 0
              /\ HasError(last_kb.result)

\* C16: a load from files that are absent or differ in their counts fails
\* with an error, and the process-wide store stays unset; a store that is
\* set holds exactly the rows and the vectors of the files, as many of one
\* as of the other.
C16_FailedLoadPublishesNothing ==
    /\ (last_kb.called /\ last_kb.load # "none" /\ DiskUnloadable) =>
          (last_kb.load = "failed" /\ HasError(last_kb.result))
    /\ DiskUnloadable => (~vector_store.instance /\ metadata_df = <<>> /\ embeddings = <<>>)
    /\ vector_store.instance =>
          /\ metadata_df = disk.metadata.rows
          /\ embeddings = disk.embeddings.rows
          /\ Len(metadata_df) = Len(embeddings)

\* Two requests were made on files that cannot be loaded.
C16_Witness ==
    DiskUnloadable /\ last_kb.called /\ last_kb.load = "failed" /\ load_attempts = 2
        /\ ~vector_store.instance

\* C17: over any sequence of requests the corpus is loaded at most once.
C17_LoadedAtMostOnce == load_attempts <= 1

\* C18: the filter holds the tag of the table for each of the three health
\* funds and tiers and the lower-cased value for any other one, and a value
\* outside the table does not make the request fail.
C18_FilterTagsFromTable ==
    (last_kb.called /\ last_kb.hmo # "None" /\ last_kb.tier # "None") =>
        /\ last_kb.hmo = "HE_maccabi" => last_kb.filter_criteria.hmo = "maccabi"
        /\ last_kb.hmo = "HE_meuhedet" => last_kb.filter_criteria.hmo = "meuhedet"
        /\ last_kb.hmo = "HE_clalit" => last_kb.filter_criteria.hmo = "clalit"
        /\ last_kb.hmo = "Maccabi" => last_kb.filter_criteria.hmo = "maccabi"
        /\ last_kb.hmo = "kupat_x" => last_kb.filter_criteria.hmo = "kupat_x"
        /\ last_kb.tier = "HE_gold" => last_kb.filter_criteria.tier = "gold"
        /\ last_kb.tier = "HE_silver" => last_kb.filter_criteria.tier = "silver"
        /\ last_kb.tier = "HE_bronze" => last_kb.filter_criteria.tier = "bronze"
        /\ last_kb.tier = "GOLD" => last_kb.filter_criteria.tier = "gold"
        /\ last_kb.tier = "platinum" => last_kb.filter_criteria.tier = "platinum"
        /\ DOMAIN last_kb.filter_criteria = {"hmo", "tier"}
        /\ (last_kb.load # "failed" /\ last_kb.embedding # <<>> /\ vector_store.json_data_dir)
              => ~HasError(last_kb.result)

\* A request with a fund and a tier outside the tables was answered with the
\* records of the lower-cased tags.
C18_Witness ==
    /\ last_kb.called /\ last_kb.hmo = "Maccabi" /\ last_kb.tier = "GOLD"
    /\ last_kb.filter_criteria = [hmo |-> "maccabi", tier |-> "gold"]
    /\ ~HasError(last_kb.result) /\ last_kb.result.count > 0

-----------------------------------------------------------------------------
(* Properties of an Answering turn.                                        *)

IsGetInformation(tc) == tc.name = "get_information"

\* The get_information tool calls of the first completion of the last turn.
GetInformationCalls == SelectSeq(last_turn.completion, IsGetInformation)

\* C19: each get_information tool call of an Answering turn is a retrieval
\* with the query of the model, with the hmo and the tier of the model where
\* it gives them, and with the stored health_fund and insurance_tier where
\* it leaves them out.
C19_RetrievalArguments ==
    (QaTurn /\ last_turn.calls # <<>>) =>
        /\ Len(last_turn.retrievals) = Len(GetInformationCalls)
        /\ \A i \in 1..Len(GetInformationCalls) :
              LET args == GetInformationCalls[i].arguments
                  call == last_turn.retrievals[i]
                  info == last_turn.request.user_info
              IN  /\ call.query = args.query
                  /\ "hmo" \in DOMAIN args => call.hmo = args.hmo
                  /\ "hmo" \notin DOMAIN args => call.hmo = info.health_fund
                  /\ "tier" \in DOMAIN args => call.tier = args.tier
                  /\ "tier" \notin DOMAIN args => call.tier = info.insurance_tier

\* The model gave a tier other than the stored one and left the hmo out: the
\* retrieval took the tier of the model and the stored health_fund.
C19_Witness ==
    /\ QaTurn /\ last_turn.status = 200
    /\ \E i \in 1..Len(GetInformationCalls) :
          /\ DOMAIN GetInformationCalls[i].arguments = {"query", "tier"}
          /\ last_turn.retrievals[i].hmo = last_turn.request.user_info.health_fund
          /\ last_turn.retrievals[i].tier = "HE_silver"
          /\ last_turn.request.user_info.insurance_tier # "HE_silver"

\* The messages of completion call n hold the output of tool call k.
HoldsToolOutput(n, k) ==
    \E j \in 1..Len(last_turn.calls[n].messages) :
        LET m == last_turn.calls[n].messages[j]
        IN  /\ m.role = "tool"
            /\ m.tool_call_id = ToolCallId(k)
            /\ m.name = "get_information"

\* C20: in an answered Answering turn, when the first completion calls
\* get_information there is a second completion call, its messages hold the
\* output of each such call, and the response is the text of the second
\* completion; with no tool call there is one completion call and the
\* response is its text.
C20_SecondCallAfterToolOutput ==
    (QaTurn /\ last_turn.status = 200) =>
        /\ GetInformationCalls # <<>> =>
              /\ Len(last_turn.calls) = 2
              /\ \A k \in 1..Len(last_turn.completion) :
                    IsGetInformation(last_turn.completion[k]) => HoldsToolOutput(2, k)
              /\ \A k \in 1..Len(last_turn.completion) : ~HoldsToolOutput(1, k)
              /\ last_turn.response.response = "completion_2"
        /\ last_turn.completion = <<>> =>
              /\ Len(last_turn.calls) = 1
              /\ last_turn.response.response = "completion_1"

\* An Answering turn with a retrieval was answered with the second completion.
C20_Witness ==
    /\ QaTurn /\ last_turn.status = 200
    /\ last_turn.retrievals # <<>>
    /\ Len(last_turn.calls) = 2
    /\ last_turn.response.response = "completion_2"

-----------------------------------------------------------------------------
(* Properties of a turn that fails.                                        *)

\* A completion call of the last turn raised.
CompletionFailedTurn == last_turn.taken /\ last_turn.error = "get_chat_completion raised"

\* C21: a turn in which a completion call fails ends with one error to the
\* caller, status 500 and no response; the failed call is the last call of
\* the turn and was issued once.
C21_FailedCallSurfacedOnce ==
    CompletionFailedTurn =>
        /\ last_turn.status = 500
        /\ last_turn.response = NoResponse
        /\ last_turn.issued = Len(last_turn.calls) + 1

\* The follow-up completion call of a turn failed after the first succeeded.
C21_Witness ==
    CompletionFailedTurn /\ Len(last_turn.calls) = 1 /\ last_turn.issued = 2
        /\ last_turn.status = 500

\* The last turn failed: the backend did not answer with status 200.
FailedTurn == last_turn.taken /\ last_turn.status # 200

\* The texts of the exceptions the calls of a turn can raise.
RawExceptionTexts ==
    {"Error code: 401 - Access denied due to invalid subscription key",
     "int() argument must be a string, a bytes-like object or a real number, not 'NoneType'",
     "400: detail of the HTTPException"}

\* C22: what the page shows of a failed turn is a message that does not hold
\* the text of the exception of the failing call.
C22_NoRawExceptionShown ==
    FailedTurn =>
        /\ last_turn.shown.message # ""
        /\ last_turn.shown.text \notin RawExceptionTexts

IsPrefix(s, t) == Len(s) <= Len(t) /\ SubSeq(t, 1, Len(s)) = s

\* C23: the history before a chat turn is a prefix of the history after it.
C23_HistoryAppendOnly ==
    [][last_turn'.taken => IsPrefix(messages, messages')]_vars

\* Two turns were answered: the history holds the welcome message and both
\* exchanges, in order.
C23_Witness ==
    /\ last_turn.taken /\ last_turn.status = 200
    /\ Len(messages) = 5
    /\ messages[1].role = "assistant" /\ messages[2].role = "user"
    /\ messages[4].role = "user" /\ messages[5].role = "assistant"

\* C30: a turn whose API call fails leaves conversation_phase and user_info
\* as they were and waiting_for_response False.
C30_FailedTurnKeepsSession ==
    [][(last_turn'.taken /\ last_turn'.status # 200) =>
          /\ conversation_phase' = conversation_phase
          /\ user_info' = user_info
          /\ waiting_for_response' = FALSE]_vars

\* A turn failed in phase qa with an identity stored, and the session is as before.
C30_Witness ==
    /\ FailedTurn /\ last_turn.request.conversation_phase = "qa"
    /\ conversation_phase = "qa" /\ user_info = last_turn.request.user_info
    /\ user_info # NoUserInfo /\ ~waiting_for_response

-----------------------------------------------------------------------------
(* Properties of the messages sent to the model and of the requests the    *)
(* backend refuses.                                                        *)

\* The positions in msgs of the assistant messages that carry tool calls.
ToolCallMessages(msgs) ==
    {j \in 1..Len(msgs) : msgs[j].role = "assistant" /\ "tool_calls" \in DOMAIN msgs[j]}

\* The positions in msgs of the tool responses to tool call k.
ToolResponses(msgs, k) ==
    {j \in 1..Len(msgs) : msgs[j].role = "tool" /\ msgs[j].tool_call_id = ToolCallId(k)}

\* C27: the messages of every follow-up completion call hold the assistant
\* message with the tool calls once and, after it, one tool response for
\* each of its tool calls.
C27_ToolCallsAnsweredOnce ==
    last_turn.taken =>
        \A n \in 2..Len(last_turn.calls) :
            LET msgs == last_turn.calls[n].messages
            IN  /\ Cardinality(ToolCallMessages(msgs)) = 1
                /\ \A k \in 1..Len(last_turn.completion) :
                      /\ Cardinality(ToolResponses(msgs, k)) = 1
                      /\ \A j \in ToolResponses(msgs, k) :
                            \A a \in ToolCallMessages(msgs) : a < j

\* The request is one the backend refuses: a phase it does not know, or a
\* qa request without user_info or without a user message.
RefusedRequest ==
    /\ last_turn.taken
    /\ \/ last_turn.request.conversation_phase \notin {"information_collection", "qa"}
       \/ /\ last_turn.request.conversation_phase = "qa"
          /\ \/ last_turn.request.user_info = NoUserInfo
             \/ \A j \in 1..Len(last_turn.request.messages) :
                   last_turn.request.messages[j].role # "user"

\* C28: a refused request is answered with status 400.
C28_RefusedWithStatus400 == RefusedRequest => last_turn.status = 400

\* The message list holds the QA system prompt of info first and the query.
QaPromptFirst(msgs, info, query) ==
    /\ msgs # <<>>
    /\ msgs[1].role = "system"
    /\ msgs[1] = [role |-> "system", content |-> "QA_PROMPT_TEMPLATE",
                  full_name |-> info.full_name, health_fund |-> info.health_fund,
                  insurance_tier |-> info.insurance_tier]
    /\ \E j \in 1..Len(msgs) : msgs[j].role = "user" /\ msgs[j].content = query

\* C29: every completion call of an Answering turn gets the QA system prompt
\* of the stored user_info as its first message and the user query.
C29_QaPromptInEveryCall ==
    QaTurn =>
        \A n \in 1..Len(last_turn.calls) :
            QaPromptFirst(last_turn.calls[n].messages, last_turn.request.user_info,
                          last_turn.request.messages[Len(last_turn.request.messages)].content)

-----------------------------------------------------------------------------
(* Properties of match_key_with_checkbox.                                  *)

HasPoints(element) == Len(element.position) > 0

\* The centre of a polygon with points, as a pair of numerators over n.
Centroid(element) ==
    [sx |-> SumCoord(element.position, "x"), sy |-> SumCoord(element.position, "y"),
     n |-> Len(element.position)]

\* The marks whose centroid x is strictly greater than the label's.
ToTheRight(line, marks) ==
    {k \in 1..Len(marks) : Centroid(marks[k]).sx * Centroid(line).n
                              > Centroid(line).sx * Centroid(marks[k]).n}

\* Mark j is no farther from the label than mark k (squared distances, cross-multiplied).
NoFarther(line, marks, j, k) ==
    LET l == Centroid(line)
        a == Centroid(marks[j])
        b == Centroid(marks[k])
    IN  (Sq(a.sx * l.n - l.sx * a.n) + Sq(a.sy * l.n - l.sy * a.n)) * Sq(b.n)
            <= (Sq(b.sx * l.n - l.sx * b.n) + Sq(b.sy * l.n - l.sy * b.n)) * Sq(a.n)

\* The state the label is to be matched to: that of the first nearest mark
\* strictly to the right, None when there is none.
ExpectedState(line, marks) ==
    LET C == ToTheRight(line, marks)
    IN  IF C = {} THEN NoMark
        ELSE LET k == CHOOSE k \in C :
                         /\ \A j \in C : NoFarther(line, marks, k, j)
                         /\ \A j \in C : j < k => ~NoFarther(line, marks, j, k)
             IN  marks[k].state

\* What the call returned is one entry per label, in label order, each with
\* the state of the first nearest mark strictly to the right.
MatchedAsStated ==
    /\ Len(last_match.matches) = Len(last_match.lines)
    /\ \A i \in 1..Len(last_match.lines) :
          /\ last_match.matches[i].line_content = last_match.lines[i].content
          /\ ((HasPoints(last_match.lines[i])
                 /\ \A k \in 1..Len(last_match.marks) : HasPoints(last_match.marks[k]))
              => last_match.matches[i].matched_mark_state
                    = ExpectedState(last_match.lines[i], last_match.marks))

\* C24: a call of match_key_with_checkbox returns one entry per label in
\* label order, each label matched to the state of the nearest mark whose
\* centroid is strictly to the right of the label's (the first such mark on
\* a distance tie) and to None when no mark lies strictly to the right.
C24_NearestMarkToTheRight ==
    last_match.called => (~last_match.raised /\ MatchedAsStated)

\* The calls that return do match as stated.
ReturnedMatchesAsStated ==
    (last_match.called /\ ~last_match.raised) => MatchedAsStated

\* A returning call with a distance tie between marks of different states
\* and a label without a mark to its right.
TieAndNoMarkMatched ==
    /\ last_match.called /\ ~last_match.raised
    /\ \E i \in 1..Len(last_match.lines) :
          last_match.matches[i].matched_mark_state = NoMark
    /\ \E i \in 1..Len(last_match.lines) :
          \E j, k \in ToTheRight(last_match.lines[i], last_match.marks) :
              /\ j < k
              /\ last_match.marks[j].state # last_match.marks[k].state
              /\ NoFarther(last_match.lines[i], last_match.marks, j, k)
              /\ NoFarther(last_match.lines[i], last_match.marks, k, j)

-----------------------------------------------------------------------------
(* Properties of the corpus build.                                         *)

\* C25: in one corpus build no two embedding records share an id, names
\* holding the underscore separator included.
C25_RecordIdsUnique ==
    last_build.called =>
        \A i, j \in 1..Len(last_build.embedding_records) :
            last_build.embedding_records[i].id = last_build.embedding_records[j].id
                => i = j

\* The file was loaded and its text embedded.
Embedded(file) ==
    /\ file.tier_file[Len(file.tier_file)] = ".json"
    /\ file.json_data.loaded
    /\ file.answered

\* The files of the listing that were loaded and embedded, in order.
EmbeddedFiles == SelectSeq(last_build.listing, Embedded)

\* C26: after a corpus build the metadata file and the vector array have
\* one row per file that was loaded and embedded, in the same order: row i
\* of the metadata holds the path and the text of the i-th such file and
\* vector i is the embedding of that text; a file whose load or embedding
\* failed is in neither.
C26_RowsCorrespond ==
    last_build.called =>
        /\ Len(last_build.metadata_csv) = Len(EmbeddedFiles)
        /\ Len(last_build.embeddings_npy) = Len(EmbeddedFiles)
        /\ \A i \in 1..Len(EmbeddedFiles) :
              /\ last_build.metadata_csv[i].file_path
                    = <<EmbeddedFiles[i].service, EmbeddedFiles[i].hmo,
                        EmbeddedFiles[i].tier_file>>
              /\ last_build.metadata_csv[i].text[2] = EmbeddedFiles[i].json_data.category
              /\ last_build.embeddings_npy[i]
                    = (IF last_build.metadata_csv[i].text[2] = "dental"
                       THEN <<1, 0>> ELSE <<0, 1>>)

\* A build that saved two rows of different texts around a file that failed.
C26_Witness ==
    /\ last_build.called
    /\ Len(last_build.listing) = 3
    /\ ~Embedded(last_build.listing[2])
    /\ Len(last_build.metadata_csv) = 2
    /\ last_build.metadata_csv[1].text # last_build.metadata_csv[2].text
    /\ last_build.embeddings_npy[1] # last_build.embeddings_npy[2]

====
